---------------------------- MODULE Spec2Model ----------------------------
(* A model of the opsysmem character device driver                         *)
(* (src/charDeviceDriverBlocking.c, src/charDeviceDriver.h): a FIFO of     *)
(* byte messages kept in a singly linked list, guarded by queue_lock, with *)
(* two wait queues (read_wq, write_wq) and two limits (MAX_MESSAGE_SIZE    *)
(* per message, MAX_MESSAGES_SIZE for the sum of the queued messages).     *)
(* Every process is a user task issuing device_write, device_read and      *)
(* device_ioctl calls; a call runs as the sequence of steps between its    *)
(* lock operations and wait-queue operations.                              *)
EXTENDS Integers, Sequences, FiniteSets, TLC

\* ------------------------------------------------------------- bounds
MaxCalls == 3      \* system calls issued in one behaviour of Spec
FairCalls == 4     \* system calls issued in one behaviour of FairSpec

\* -------------------------------------------------- program constants
SUCCESS == 0
MAX_MESSAGE_SIZE == 4096
CHANGE_MAX_MESSAGES_SIZE == 0
INIT_MAX_MESSAGES_SIZE == 2097152
EINVAL == 22
EFAULT == 14
NULL == 0
USHORT == 65536    \* unsigned short parameters: values are taken mod 2^16

\* the user tasks
Procs == {1, 2}
\* the task that unloads the module
Rmmod == Cardinality(Procs) + 1
\* kmalloc'ed addresses: three cells for every message a behaviour can write
Addrs == 1 .. 3 * (IF MaxCalls > FairCalls THEN MaxCalls ELSE FairCalls)
\* A byte is NUL (0) or not (1): the driver looks at nothing else in a byte.
\* The buffers user space writes from:
UserBufs == {<<>>, <<1>>, <<1, 1>>, <<1, 0>>}

VARIABLES
    heap,               \* kmalloc'ed memory: address -> object
    head, rear,         \* queuep->head, queuep->rear
    messages_size,      \* queuep->messages_size
    MAX_MESSAGES_SIZE,  \* the mutable aggregate limit
    queue_lock,         \* owner of the mutex, NULL when free
    read_wq, write_wq,  \* tasks queued (and not yet woken) on each wait queue
    pc,                 \* where each task is in its call
    arg,                \* the arguments of the task's last call
    tmp,                \* the task's local pointer (tmp_node / tmp_data)
    tmp_message,        \* device_write's local copy of the message
    ret,                \* the value the task's last call returned
    out,                \* the bytes the last device_read put in user memory
    sig,                \* a signal is pending for the task
    calls,              \* calls issued so far
    queuep,             \* queuep points at the allocated queue (FALSE: NULL)
    linked, removed     \* history: payloads in link order / in unlink order

qvars == <<heap, head, rear, messages_size>>
wvars == <<read_wq, write_wq>>
lvars == <<pc, arg, tmp, tmp_message, ret, out>>
hvars == <<linked, removed>>
cvars == <<calls, queuep>>
vars == <<heap, head, rear, messages_size, MAX_MESSAGES_SIZE, queue_lock,
          read_wq, write_wq, pc, arg, tmp, tmp_message, ret, out, sig,
          calls, queuep, linked, removed>>

\* ---------------------------------------------------------------- heap
FreeCell == [kind |-> "free", data |-> NULL, next |-> NULL, message |-> NULL,
             message_size |-> 0, bytes |-> <<>>]
NodeObj(d, n) == [kind |-> "node", data |-> d, next |-> n, message |-> NULL,
                  message_size |-> 0, bytes |-> <<>>]
DataObj(m, sz) == [kind |-> "data", data |-> NULL, next |-> NULL, message |-> m,
                   message_size |-> sz, bytes |-> <<>>]
MsgObj(b) == [kind |-> "msg", data |-> NULL, next |-> NULL, message |-> NULL,
              message_size |-> 0, bytes |-> b]

Allocated(h) == {a \in Addrs : h[a].kind # "free"}
Min(S) == CHOOSE x \in S : \A y \in S : x <= y
\* kmalloc: the address of a free cell, NULL when the allocation fails
Kmalloc(h, fails) ==
    IF fails \/ Allocated(h) = Addrs THEN NULL ELSE Min(Addrs \ Allocated(h))
\* kfree; a cell freed while it is free is marked "twice" (a double free)
Kfree(h, a) ==
    IF a = NULL THEN h
    ELSE IF h[a].kind = "free" THEN [h EXCEPT ![a].kind = "twice"]
    ELSE [h EXCEPT ![a] = FreeCell]

NoArg == [op |-> "none", length |-> 0, buf |-> <<>>, cap |-> 0, num |-> 0,
          param |-> 0]

RECURSIVE Walk(_, _, _)
Walk(h, a, n) ==
    IF a = NULL \/ n = 0 THEN <<>> ELSE <<a>> \o Walk(h, h[a].next, n - 1)
\* the nodes linked from head, in order
QueueNodes == Walk(heap, head, Cardinality(Addrs))
PayloadOf(h, node) == h[h[h[node].data].message].bytes
SizeOf(h, node) == h[h[node].data].message_size
QueueSeq == [i \in 1 .. Len(QueueNodes) |-> PayloadOf(heap, QueueNodes[i])]

Init ==
    /\ heap = [a \in Addrs |-> FreeCell]
    /\ head = NULL /\ rear = NULL /\ messages_size = 0
    /\ MAX_MESSAGES_SIZE = INIT_MAX_MESSAGES_SIZE
    /\ queue_lock = NULL
    /\ read_wq = {} /\ write_wq = {}
    /\ pc = [p \in Procs |-> "idle"]
    /\ arg = [p \in Procs |-> NoArg]
    /\ tmp = [p \in Procs |-> NULL]
    /\ tmp_message = [p \in Procs |-> <<>>]
    /\ ret = [p \in Procs |-> SUCCESS]
    /\ out = [p \in Procs |-> <<>>]
    /\ sig = [p \in Procs |-> FALSE]
    /\ calls = 0
    /\ queuep = TRUE
    /\ linked = <<>> /\ removed = <<>>

\* A call returns v to user space.
Return(p, v) ==
    /\ pc' = [pc EXCEPT ![p] = "idle"]
    /\ ret' = [ret EXCEPT ![p] = v]
    /\ arg' = arg
    /\ tmp' = [tmp EXCEPT ![p] = NULL]
    /\ tmp_message' = [tmp_message EXCEPT ![p] = <<>>]
    /\ sig' = [sig EXCEPT ![p] = FALSE]

Goto(p, l) == pc' = [pc EXCEPT ![p] = l]


\* ------------------------------------------------------ system calls
WriteArg(b, n) == [NoArg EXCEPT !.op = "write", !.buf = b, !.length = n]
ReadArg(n, c) == [NoArg EXCEPT !.op = "read", !.length = n, !.cap = c]
IoctlArg(n, x) == [NoArg EXCEPT !.op = "ioctl", !.num = n, !.param = x]

\* write(fd, buffer, length): buffer points at Len(buf) readable bytes. A
\* length of MAX_MESSAGE_SIZE or more comes with a buffer shorter than that.
WriteArgs ==
    {WriteArg(b, Len(b)) : b \in UserBufs}
        \cup {WriteArg(<<>>, MAX_MESSAGE_SIZE), WriteArg(<<>>, MAX_MESSAGE_SIZE + 1)}
\* read(fd, buffer, length): buffer points at cap writable bytes.
ReadArgs == {ReadArg(1, 3), ReadArg(3, 3), ReadArg(3, 0)}
\* ioctl(fd, num, param)
IoctlArgs ==
    {IoctlArg(CHANGE_MAX_MESSAGES_SIZE, 1), IoctlArg(CHANGE_MAX_MESSAGES_SIZE, 2),
     IoctlArg(CHANGE_MAX_MESSAGES_SIZE + 1, 0)}

\* the calls of the fair specification
FairWriteArgs == {WriteArg(<<1>>, 1)}
FairReadArgs == {ReadArg(1, 1)}
FairIoctlArgs == {IoctlArg(CHANGE_MAX_MESSAGES_SIZE, 1)}
\* the ioctl calls that lower the limit to one byte and raise it to two
RaiseIoctlArgs == {IoctlArg(CHANGE_MAX_MESSAGES_SIZE, 1),
                   IoctlArg(CHANGE_MAX_MESSAGES_SIZE, 2)}

\* A call comes through an open file: the module is loaded and is not being
\* unloaded.
Enter(p, a, l, max) ==
    /\ pc[p] = "idle"
    /\ queuep /\ queue_lock # Rmmod
    /\ calls < max
    /\ calls' = calls + 1
    /\ arg' = [arg EXCEPT ![p] = a]
    /\ pc' = [pc EXCEPT ![p] = l]
    /\ out' = [out EXCEPT ![p] = <<>>]
    /\ ret' = [ret EXCEPT ![p] = SUCCESS]
    /\ UNCHANGED <<qvars, MAX_MESSAGES_SIZE, queue_lock, wvars, tmp,
                   tmp_message, sig, queuep, hvars>>

CallWrite(p, args, max) == \E a \in args : Enter(p, a, "wr_entry", max)
CallRead(p, args, max) == \E a \in args : Enter(p, a, "rd_chk", max)
CallIoctl(p, args, max) == \E a \in args : Enter(p, a, "io_entry", max)

\* ------------------------------------------------------------- mutex
\* the places where a task is about to call mutex_lock, and where it is
\* once it holds the lock
AfterLock(l) ==
    CASE l = "wr_chk" -> "wr_chk_cs"
      [] l = "wr_loop" -> "wr_loop_cs"
      [] l = "rd_chk" -> "rd_chk_cs"
      [] l = "rd_loop" -> "rd_loop_cs"
      [] l = "enq_lock1" -> "enq_cs1"
      [] l = "enq_lock2" -> "enq_cs2"
      [] l = "deq_lock" -> "deq_cs"
      [] l = "io_lock" -> "io_cs"
LockSites == {"wr_chk", "wr_loop", "rd_chk", "rd_loop", "enq_lock1",
              "enq_lock2", "deq_lock", "io_lock"}

MutexLock(p) ==
    /\ pc[p] \in LockSites
    /\ queue_lock = NULL
    /\ queue_lock' = p
    /\ Goto(p, AfterLock(pc[p]))
    /\ UNCHANGED <<qvars, MAX_MESSAGES_SIZE, wvars, arg, tmp, tmp_message,
                   ret, out, sig, cvars, hvars>>

\* -------------------------------------------------------- wait_event
\* is_space_in_queue(queuep, length), from mutex_lock's return to the
\* function's return
is_space_in_queue(length) ==
    IF messages_size + (length % USHORT) > MAX_MESSAGES_SIZE THEN 0 ELSE 1
\* is_queue_empty(queuep)
is_queue_empty ==
    IF messages_size = 0 THEN 1 ELSE 0

\* wait_event(wq, condition): the condition is evaluated once before the
\* task queues itself, and again after every prepare_to_wait; finish_wait
\* takes the task off the wait queue when the condition holds.
WaitCheck(p, holds, go) ==
    /\ queue_lock = p
    /\ queue_lock' = NULL
    /\ IF holds
         THEN /\ Goto(p, go)
              /\ read_wq' = read_wq \ {p}
              /\ write_wq' = write_wq \ {p}
         ELSE /\ Goto(p, CASE pc[p] = "wr_chk_cs" -> "wr_prep"
                           [] pc[p] = "wr_loop_cs" -> "wr_sched"
                           [] pc[p] = "rd_chk_cs" -> "rd_prep"
                           [] pc[p] = "rd_loop_cs" -> "rd_sched")
              /\ UNCHANGED wvars
    /\ UNCHANGED <<qvars, MAX_MESSAGES_SIZE, arg, tmp, tmp_message, ret,
                   out, sig, cvars, hvars>>

IsSpaceInQueue(p) ==
    /\ pc[p] \in {"wr_chk_cs", "wr_loop_cs"}
    /\ WaitCheck(p, is_space_in_queue(arg[p].length) = 1, "wr_copy")

IsQueueEmpty(p) ==
    /\ pc[p] \in {"rd_chk_cs", "rd_loop_cs"}
    /\ WaitCheck(p, is_queue_empty = 0, "deq_lock")

\* prepare_to_wait_event: queue the task and mark it TASK_UNINTERRUPTIBLE
PrepareToWait(p) ==
    /\ pc[p] \in {"wr_prep", "rd_prep"}
    /\ IF pc[p] = "wr_prep"
         THEN write_wq' = write_wq \cup {p} /\ Goto(p, "wr_loop")
                  /\ UNCHANGED read_wq
         ELSE read_wq' = read_wq \cup {p} /\ Goto(p, "rd_loop")
                  /\ UNCHANGED write_wq
    /\ UNCHANGED <<qvars, MAX_MESSAGES_SIZE, queue_lock, arg, tmp,
                   tmp_message, ret, out, sig, cvars, hvars>>

\* schedule() returns once a wake_up has made the task runnable again (the
\* wake function takes it off the wait queue); the loop then queues it anew.
Asleep(p) == pc[p] \in {"wr_sched", "rd_sched"} /\ p \in read_wq \cup write_wq
Schedule(p) ==
    /\ pc[p] \in {"wr_sched", "rd_sched"}
    /\ ~Asleep(p)
    /\ Goto(p, IF pc[p] = "wr_sched" THEN "wr_prep" ELSE "rd_prep")
    /\ UNCHANGED <<qvars, MAX_MESSAGES_SIZE, queue_lock, wvars, arg, tmp,
                   tmp_message, ret, out, sig, cvars, hvars>>

\* A signal is sent to a task suspended in wait_event. The sleep is
\* TASK_UNINTERRUPTIBLE: the signal stays pending and wakes nobody.
Signal(p) ==
    /\ Asleep(p)
    /\ ~sig[p]
    /\ sig' = [sig EXCEPT ![p] = TRUE]
    /\ UNCHANGED <<qvars, MAX_MESSAGES_SIZE, queue_lock, wvars, lvars,
                   cvars, hvars>>



\* wake_up(&wq): every task queued on wq becomes runnable and leaves wq
WakeUp(wq) == wq \ wq

\* ------------------------------------------------------ device_write
\* mutant: the length check with >= for >
TooLongFrom(length) == length >= MAX_MESSAGE_SIZE
\* the length check at the top of device_write
TooLong(length) == length > MAX_MESSAGE_SIZE
WriteEntry(p) ==
    /\ pc[p] = "wr_entry"
    /\ IF TooLong(arg[p].length)
         THEN Return(p, -EINVAL)
         ELSE Goto(p, "wr_chk") /\ UNCHANGED <<arg, tmp, tmp_message, ret, sig>>
    /\ UNCHANGED <<qvars, MAX_MESSAGES_SIZE, queue_lock, wvars, out, cvars,
                   hvars>>

\* the get_user loop: byte i of the user buffer is readable iff i < Len(buf)
CopyFromUser(p) ==
    /\ pc[p] = "wr_copy"
    /\ IF arg[p].length > Len(arg[p].buf)
         THEN Return(p, -EFAULT)
         ELSE /\ tmp_message' =
                     [tmp_message EXCEPT ![p] = SubSeq(arg[p].buf, 1, arg[p].length)]
              /\ Goto(p, "enq_lock1")
              /\ UNCHANGED <<arg, tmp, ret, sig>>
    /\ UNCHANGED <<qvars, MAX_MESSAGES_SIZE, queue_lock, wvars, out, cvars,
                   hvars>>

\* enqueue, first critical section: the queuep == NULL test
\* mutant: enqueue going on to kmalloc with the lock held
EnqueueCheckNoUnlock(p) ==
    /\ pc[p] = "enq_cs1"
    /\ queue_lock = p
    /\ Goto(p, "enq_alloc")
    /\ UNCHANGED <<qvars, MAX_MESSAGES_SIZE, queue_lock, wvars, arg, tmp,
                   tmp_message, ret, out, sig, cvars, hvars>>

EnqueueCheck(p) ==
    /\ pc[p] = "enq_cs1"
    /\ queue_lock = p
    /\ queue_lock' = NULL
    /\ Goto(p, "enq_alloc")
    /\ UNCHANGED <<qvars, MAX_MESSAGES_SIZE, wvars, arg, tmp, tmp_message,
                   ret, out, sig, cvars, hvars>>

\* mutant: enqueue without the kfree(tmp_node) after a failed allocation
AllocNodeLeak(h, message, message_size, fail) ==
    LET n == Kmalloc(h, fail = "node")
        h1 == IF n = NULL THEN h ELSE [h EXCEPT ![n] = NodeObj(NULL, NULL)]
        d == IF n = NULL THEN NULL ELSE Kmalloc(h1, fail = "data")
        h2 == IF d = NULL THEN h1
              ELSE [h1 EXCEPT ![n] = NodeObj(d, NULL), ![d] = DataObj(NULL, 0)]
        m == IF d = NULL THEN NULL ELSE Kmalloc(h2, fail = "message")
    IN  IF n = NULL THEN [heap |-> h, node |-> NULL]
        ELSE IF d = NULL THEN [heap |-> h1, node |-> NULL]
        ELSE IF m = NULL THEN [heap |-> Kfree(h2, d), node |-> NULL]
        ELSE [heap |-> [h2 EXCEPT ![d] = DataObj(m, message_size % USHORT),
                                  ![m] = MsgObj(SubSeq(message, 1, message_size))],
              node |-> n]

\* enqueue's three allocations. fail names the kmalloc that returns NULL
\* ("none": all succeed). The result is the heap afterwards and tmp_node
\* (NULL: enqueue returns -1).
AllocNode(h, message, message_size, fail) ==
    LET n == Kmalloc(h, fail = "node")
        h1 == IF n = NULL THEN h ELSE [h EXCEPT ![n] = NodeObj(NULL, NULL)]
        d == IF n = NULL THEN NULL ELSE Kmalloc(h1, fail = "data")
        h2 == IF d = NULL THEN h1
              ELSE [h1 EXCEPT ![n] = NodeObj(d, NULL), ![d] = DataObj(NULL, 0)]
        m == IF d = NULL THEN NULL ELSE Kmalloc(h2, fail = "message")
    IN  IF n = NULL THEN [heap |-> h, node |-> NULL]
        ELSE IF d = NULL THEN [heap |-> Kfree(h1, n), node |-> NULL]
        ELSE IF m = NULL THEN [heap |-> Kfree(Kfree(h2, d), n), node |-> NULL]
        ELSE [heap |-> [h2 EXCEPT ![d] = DataObj(m, message_size % USHORT),
                                  ![m] = MsgObj(SubSeq(message, 1, message_size))],
              node |-> n]

EnqueueAlloc(p) ==
    /\ pc[p] = "enq_alloc"
    /\ \E fail \in {"none", "node", "data", "message"} :
         LET r == AllocNode(heap, tmp_message[p], arg[p].length, fail)
         IN  /\ heap' = r.heap
             /\ IF r.node = NULL
                  THEN Return(p, -EFAULT)
                  ELSE /\ tmp' = [tmp EXCEPT ![p] = r.node]
                       /\ Goto(p, "enq_lock2")
                       /\ UNCHANGED <<arg, tmp_message, ret, sig>>
    /\ UNCHANGED <<head, rear, messages_size, MAX_MESSAGES_SIZE, queue_lock,
                   wvars, out, cvars, hvars>>

\* mutant: enqueue linking the new node before head
LinkAtHead(h, hd, rr, size, node) ==
    LET h1 == [h EXCEPT ![node].next = hd]
    IN  [heap |-> h1, head |-> node, rear |-> IF rr = NULL THEN node ELSE rr,
         messages_size |-> size + SizeOf(h1, node)]

\* enqueue, second critical section: link tmp_node after rear. The result
\* is the queue afterwards.
Link(h, hd, rr, size, node) ==
    LET h1 == IF rr = NULL THEN h ELSE [h EXCEPT ![rr].next = node]
        hd1 == IF rr = NULL THEN node ELSE hd
        rr1 == IF rr = NULL THEN node ELSE h1[rr].next
    IN  [heap |-> h1, head |-> hd1, rear |-> rr1,
         messages_size |-> size + SizeOf(h1, rr1)]

EnqueueLink(p) ==
    /\ pc[p] = "enq_cs2"
    /\ queue_lock = p
    /\ LET q == Link(heap, head, rear, messages_size, tmp[p])
       IN  /\ heap' = q.heap
           /\ head' = q.head
           /\ rear' = q.rear
           /\ messages_size' = q.messages_size
    /\ linked' = Append(linked, PayloadOf(heap, tmp[p]))
    /\ queue_lock' = NULL
    /\ tmp' = [tmp EXCEPT ![p] = NULL]
    /\ Goto(p, "wr_wake")
    /\ UNCHANGED <<MAX_MESSAGES_SIZE, wvars, arg, tmp_message, ret, out, sig,
                   cvars, removed>>

\* wake_up(&read_wq); return i
WriteWakeUp(p) ==
    /\ pc[p] = "wr_wake"
    /\ read_wq' = WakeUp(read_wq)
    /\ Return(p, arg[p].length)
    /\ UNCHANGED <<qvars, MAX_MESSAGES_SIZE, queue_lock, write_wq, out,
                   cvars, hvars>>

\* ------------------------------------------------------- device_read
\* mutant: dequeue that leaves messages_size as it was
UnlinkKeepSize(h, hd, rr, size) ==
    IF hd = NULL
    THEN [heap |-> h, head |-> hd, rear |-> rr, messages_size |-> size,
          data |-> NULL]
    ELSE [heap |-> Kfree(h, hd),
          head |-> h[hd].next,
          rear |-> IF hd = rr THEN h[rr].next ELSE rr,
          messages_size |-> size,
          data |-> h[hd].data]

\* mutant: dequeue that leaves rear as it was
UnlinkKeepRear(h, hd, rr, size) ==
    IF hd = NULL
    THEN [heap |-> h, head |-> hd, rear |-> rr, messages_size |-> size,
          data |-> NULL]
    ELSE [heap |-> Kfree(h, hd),
          head |-> h[hd].next,
          rear |-> rr,
          messages_size |-> size - SizeOf(h, hd),
          data |-> h[hd].data]

\* dequeue's critical section and the kfree of the unlinked node. The
\* result is the queue afterwards and the pointer dequeue returns.
Unlink(h, hd, rr, size) ==
    IF hd = NULL
    THEN [heap |-> h, head |-> hd, rear |-> rr, messages_size |-> size,
          data |-> NULL]
    ELSE [heap |-> Kfree(h, hd),
          head |-> h[hd].next,
          rear |-> IF hd = rr THEN h[rr].next ELSE rr,
          messages_size |-> size - SizeOf(h, hd),
          data |-> h[hd].data]

Dequeue(p) ==
    /\ pc[p] = "deq_cs"
    /\ queue_lock = p
    /\ LET q == Unlink(heap, head, rear, messages_size)
       IN  /\ heap' = q.heap
           /\ head' = q.head
           /\ rear' = q.rear
           /\ messages_size' = q.messages_size
           /\ tmp' = [tmp EXCEPT ![p] = q.data]
    /\ removed' = IF tmp'[p] = NULL THEN removed
                  ELSE Append(removed, heap[heap[tmp'[p]].message].bytes)
    /\ queue_lock' = NULL
    /\ Goto(p, "rd_wake")
    /\ UNCHANGED <<MAX_MESSAGES_SIZE, wvars, arg, tmp_message, ret, out, sig,
                   cvars, linked>>

\* mutant: device_read without its wake_up(&write_wq)
ReadNoWakeUp(p) ==
    /\ pc[p] = "rd_wake"
    /\ Goto(p, "rd_copy")
    /\ UNCHANGED <<qvars, MAX_MESSAGES_SIZE, queue_lock, wvars, arg, tmp,
                   tmp_message, ret, out, sig, cvars, hvars>>

\* wake_up(&write_wq)
ReadWakeUp(p) ==
    /\ pc[p] = "rd_wake"
    /\ write_wq' = WakeUp(write_wq)
    /\ Goto(p, "rd_copy")
    /\ UNCHANGED <<qvars, MAX_MESSAGES_SIZE, queue_lock, read_wq, arg, tmp,
                   tmp_message, ret, out, sig, cvars, hvars>>

\* the put_user loop of device_read: message from index i on, tmp_length
\* bytes left to deliver, user byte j writable iff j <= cap. The result is
\* the bytes stored in user memory and whether a put_user failed.
RECURSIVE PutLoop(_, _, _, _, _)
PutLoop(message, i, tmp_length, cap, done) ==
    IF tmp_length # 0 /\ message[i] # 0
    THEN IF i > cap
         THEN [out |-> done, fault |-> TRUE]
         ELSE PutLoop(message, i + 1, tmp_length - 1, cap,
                      Append(done, message[i]))
    ELSE [out |-> done, fault |-> FALSE]

\* mutant: tmp_length without the comparison with length
ReadLengthWhole(message_size, length) == message_size

\* tmp_length as device_read sets it before the loop
ReadLength(message_size, length) ==
    IF message_size >= length THEN length % USHORT ELSE message_size

\* mutant: the -EFAULT path of device_read without its kfree(tmp_data)
CopyToUserLeak(p) ==
    /\ pc[p] = "rd_copy"
    /\ IF tmp[p] = NULL
         THEN /\ Goto(p, "oops")
              /\ UNCHANGED <<heap, arg, tmp, tmp_message, ret, out, sig>>
         ELSE LET d == heap[tmp[p]]
                  r == PutLoop(heap[d.message].bytes, 1,
                               ReadLength(d.message_size, arg[p].length),
                               arg[p].cap, <<>>)
              IN  /\ out' = [out EXCEPT ![p] = r.out]
                  /\ heap' = IF r.fault THEN Kfree(heap, d.message)
                             ELSE Kfree(Kfree(heap, d.message), tmp[p])
                  /\ Return(p, IF r.fault THEN -EFAULT ELSE Len(r.out))
    /\ UNCHANGED <<head, rear, messages_size, MAX_MESSAGES_SIZE, queue_lock,
                   wvars, cvars, hvars>>

\* tmp_data->message dereferences tmp_data: with tmp_data == NULL the task
\* dies in the kernel (an oops) and never returns. (A kernel that panics on
\* an oops stops every task there instead: that adds no reachable state.)
CopyToUser(p) ==
    /\ pc[p] = "rd_copy"
    /\ IF tmp[p] = NULL
         THEN /\ Goto(p, "oops")
              /\ UNCHANGED <<heap, arg, tmp, tmp_message, ret, out, sig>>
         ELSE LET d == heap[tmp[p]]
                  r == PutLoop(heap[d.message].bytes, 1,
                               ReadLength(d.message_size, arg[p].length),
                               arg[p].cap, <<>>)
              IN  /\ out' = [out EXCEPT ![p] = r.out]
                  /\ heap' = Kfree(Kfree(heap, d.message), tmp[p])
                  /\ Return(p, IF r.fault THEN -EFAULT ELSE Len(r.out))
    /\ UNCHANGED <<head, rear, messages_size, MAX_MESSAGES_SIZE, queue_lock,
                   wvars, cvars, hvars>>

\* ------------------------------------------------------ device_ioctl
\* mutant: device_ioctl going to its test without mutex_lock
IoctlEntryUnlocked(p) ==
    /\ pc[p] = "io_entry"
    /\ IF arg[p].num = CHANGE_MAX_MESSAGES_SIZE
         THEN Goto(p, "io_cs") /\ UNCHANGED <<arg, tmp, tmp_message, ret, sig>>
         ELSE Return(p, -EINVAL)
    /\ UNCHANGED <<qvars, MAX_MESSAGES_SIZE, queue_lock, wvars, out, cvars,
                   hvars>>

IoctlEntry(p) ==
    /\ pc[p] = "io_entry"
    /\ IF arg[p].num = CHANGE_MAX_MESSAGES_SIZE
         THEN Goto(p, "io_lock") /\ UNCHANGED <<arg, tmp, tmp_message, ret, sig>>
         ELSE Return(p, -EINVAL)
    /\ UNCHANGED <<qvars, MAX_MESSAGES_SIZE, queue_lock, wvars, out, cvars,
                   hvars>>

\* mutant: the test with >= for >
AcceptsEqual(ioctl_param) == ioctl_param >= messages_size
\* the test device_ioctl makes under the lock
Accepts(ioctl_param) == ioctl_param > messages_size
\* mutant: the limit is set whatever the test says
NewLimitAlways(ioctl_param) == ioctl_param
\* MAX_MESSAGES_SIZE as device_ioctl leaves it
NewLimit(ioctl_param) ==
    IF Accepts(ioctl_param) THEN ioctl_param ELSE MAX_MESSAGES_SIZE
IoctlSet(p) ==
    /\ pc[p] = "io_cs"
    /\ queue_lock = p
    /\ queue_lock' = NULL
    /\ MAX_MESSAGES_SIZE' = NewLimit(arg[p].param)
    /\ Return(p, IF Accepts(arg[p].param) THEN SUCCESS ELSE -EINVAL)
    /\ UNCHANGED <<qvars, wvars, out, cvars, hvars>>

\* ----------------------------------------------------- release_queue
\* char_device_driver_exit runs when no file is open on the device: every
\* task is out of its call (or dead). release_queue takes the lock first.
ExitLock ==
    /\ queuep
    /\ \A p \in Procs : pc[p] \in {"idle", "oops"}
    /\ queue_lock = NULL
    /\ queue_lock' = Rmmod
    /\ UNCHANGED <<qvars, MAX_MESSAGES_SIZE, wvars, lvars, sig, cvars, hvars>>

\* a release loop that leaves the payloads allocated
RECURSIVE ReleaseNodesLeak(_, _)
ReleaseNodesLeak(h, tmp_node) ==
    IF tmp_node = NULL THEN h
    ELSE LET iterator_node == h[tmp_node].next
             d == h[tmp_node].data
         IN  ReleaseNodesLeak(Kfree(Kfree(h, d), tmp_node), iterator_node)

\* the loop of release_queue from tmp_node on: the heap once the message,
\* the record and the node of every linked node are kfree'd
RECURSIVE ReleaseNodes(_, _)
ReleaseNodes(h, tmp_node) ==
    IF tmp_node = NULL THEN h
    ELSE LET iterator_node == h[tmp_node].next
             d == h[tmp_node].data
             h1 == IF d = NULL THEN h
                   ELSE Kfree(IF h[d].message = NULL THEN h
                              ELSE Kfree(h, h[d].message), d)
         IN  ReleaseNodes(Kfree(h1, tmp_node), iterator_node)

\* release_queue under the lock, kfree(queuep) and queuep = NULL
ReleaseQueue ==
    /\ queue_lock = Rmmod
    /\ heap' = ReleaseNodes(heap, head)
    /\ queuep' = FALSE
    /\ queue_lock' = NULL
    /\ UNCHANGED <<head, rear, messages_size, MAX_MESSAGES_SIZE, wvars, lvars,
                   sig, calls, hvars>>

\* ------------------------------------------------------ specification
Step(p) ==
    \/ MutexLock(p)
    \/ IsSpaceInQueue(p)
    \/ IsQueueEmpty(p)
    \/ PrepareToWait(p)
    \/ Schedule(p)
    \/ WriteEntry(p)
    \/ CopyFromUser(p)
    \/ EnqueueCheck(p)
    \/ EnqueueAlloc(p)
    \/ EnqueueLink(p)
    \/ WriteWakeUp(p)
    \/ Dequeue(p)
    \/ ReadWakeUp(p)
    \/ CopyToUser(p)
    \/ IoctlEntry(p)
    \/ IoctlSet(p)

Next ==
    \E p \in Procs :
        \/ CallWrite(p, WriteArgs, MaxCalls)
        \/ CallRead(p, ReadArgs, MaxCalls)
        \/ CallIoctl(p, IoctlArgs, MaxCalls)
        \/ Signal(p)
        \/ Step(p)

Spec == Init /\ [][Next]_vars

\* The fair specification: few calls, and every task that can take a step
\* of its call eventually takes one (the scheduler runs every runnable
\* task; nothing obliges user space to issue calls or send signals).
FairNext ==
    \E p \in Procs :
        \/ CallWrite(p, FairWriteArgs, FairCalls)
        \/ CallRead(p, FairReadArgs, FairCalls)
        \/ CallIoctl(p, FairIoctlArgs, FairCalls)
        \/ Signal(p)
        \/ Step(p)

FairSpec == Init /\ [][FairNext]_vars /\ \A p \in Procs : WF_vars(Step(p))

\* The fair specification in which device_ioctl lowers and raises the limit.
RaiseNext ==
    \E p \in Procs :
        \/ CallWrite(p, FairWriteArgs, FairCalls)
        \/ CallRead(p, FairReadArgs, FairCalls)
        \/ CallIoctl(p, RaiseIoctlArgs, FairCalls)
        \/ Signal(p)
        \/ Step(p)

RaiseSpec == Init /\ [][RaiseNext]_vars /\ \A p \in Procs : WF_vars(Step(p))

\* The specification with the unloading of the module.
ExitNext ==
    \/ Next
    \/ ExitLock
    \/ ReleaseQueue

ExitSpec == Init /\ [][ExitNext]_vars


\* ------------------------------------------------------------ claims
InWrite(p) == arg[p].op = "write" /\ pc[p] \notin {"idle", "oops"}
InRead(p) == arg[p].op = "read" /\ pc[p] \notin {"idle", "oops"}
InIoctl(p) == arg[p].op = "ioctl" /\ pc[p] \notin {"idle", "oops"}
\* the call of task p has returned v
Returned(p, o, v) == arg[p].op = o /\ pc[p] = "idle" /\ ret[p] = v
\* task p takes a step of its call
Acts(p) == pc'[p] # pc[p]
WaitingForRoom(p) ==
    pc[p] \in {"wr_chk", "wr_chk_cs", "wr_prep", "wr_loop", "wr_loop_cs",
               "wr_sched"}
WaitingForData(p) ==
    pc[p] \in {"rd_chk", "rd_chk_cs", "rd_prep", "rd_loop", "rd_loop_cs",
               "rd_sched"}
HasRoom(p) == messages_size + arg[p].length <= MAX_MESSAGES_SIZE

\* C1: in every reachable state the sum of the queued messages' sizes is at
\* most the aggregate limit: messages_size <= MAX_MESSAGES_SIZE.
C1_CapacityInvariant == messages_size <= MAX_MESSAGES_SIZE

\* C2: messages leave the queue in the order they were linked: the payloads
\* dequeue has handed out, followed by the payloads still queued, are the
\* payloads in the order enqueue linked them.
C2_Fifo == linked = removed \o QueueSeq
\* two different messages were linked and the first one has been dequeued
C2_Witness ==
    /\ Len(removed) >= 1
    /\ Len(QueueSeq) >= 1
    /\ removed[1] # QueueSeq[1]

\* C3: device_ioctl(CHANGE_MAX_MESSAGES_SIZE, x) returns SUCCESS iff
\* x > messages_size when it tests under the lock, whatever the old limit;
\* on success the limit is x and messages_size <= MAX_MESSAGES_SIZE right
\* after the step.
C3_ResizeGuard ==
    [][\A p \in Procs :
         (pc[p] = "io_cs" /\ Acts(p)) =>
            /\ pc'[p] = "idle"
            /\ (ret'[p] = SUCCESS) <=> (arg[p].param > messages_size)
            /\ ret'[p] = SUCCESS =>
                  /\ MAX_MESSAGES_SIZE' = arg[p].param
                  /\ messages_size' <= MAX_MESSAGES_SIZE']_vars
\* a resize to less than the old limit has succeeded with messages queued
C3_Witness ==
    \E p \in Procs :
        /\ Returned(p, "ioctl", SUCCESS)
        /\ MAX_MESSAGES_SIZE = arg[p].param
        /\ MAX_MESSAGES_SIZE < INIT_MAX_MESSAGES_SIZE
        /\ messages_size > 0

\* C4: a device_write of more than MAX_MESSAGE_SIZE bytes returns -EINVAL in
\* its first step, never waits, and changes nothing of the queue or the
\* limit; a device_write of exactly MAX_MESSAGE_SIZE bytes goes on to the
\* wait for room.
C4_PerMessageCap ==
    /\ [][\A p \in Procs :
            (pc[p] = "wr_entry" /\ Acts(p)) =>
               IF arg[p].length > MAX_MESSAGE_SIZE
               THEN /\ pc'[p] = "idle"
                    /\ ret'[p] = -EINVAL
                    /\ UNCHANGED <<qvars, MAX_MESSAGES_SIZE, wvars>>
               ELSE pc'[p] = "wr_chk"]_vars
    /\ [](\A p \in Procs :
            (InWrite(p) /\ arg[p].length > MAX_MESSAGE_SIZE) =>
               (pc[p] = "wr_entry" /\ p \notin read_wq \cup write_wq))
\* an oversized write was refused while a message was queued
C4_Witness ==
    \E p \in Procs :
        /\ Returned(p, "write", -EINVAL)
        /\ arg[p].length = MAX_MESSAGE_SIZE + 1
        /\ head # NULL

C6_BlocksOnlyWhenEmpty ==
    [][\A p \in Procs :
         (pc[p] \in {"rd_chk_cs", "rd_loop_cs"} /\ Acts(p)) =>
            (pc'[p] \in {"rd_prep", "rd_sched"} <=> head = NULL)]_vars

\* the prefix of s before its first zero byte
ZeroCut(s) ==
    LET Z == {i \in 1 .. Len(s) : s[i] = 0}
    IN  IF Z = {} THEN s ELSE SubSeq(s, 1, Min(Z) - 1)
\* C7: dequeue takes exactly the first message off the queue; a device_read
\* that returns a count has put into user memory the first
\* min(length, message_size) bytes of that message, cut at the first zero
\* byte, returns their number, and has freed the whole message.
C7_TruncatedReceive ==
    [][\A p \in Procs :
         /\ (pc[p] = "deq_cs" /\ Acts(p) /\ head # NULL) =>
               /\ QueueSeq' = Tail(QueueSeq)
               /\ tmp'[p] # NULL
               /\ heap'[heap'[tmp'[p]].message].bytes = Head(QueueSeq)
               /\ heap'[tmp'[p]].message_size = Len(Head(QueueSeq))
         /\ (pc[p] = "rd_copy" /\ Acts(p) /\ pc'[p] = "idle" /\ ret'[p] >= 0) =>
               LET d == heap[tmp[p]]
                   payload == heap[d.message].bytes
                   n == IF arg[p].length <= d.message_size
                        THEN arg[p].length ELSE d.message_size
               IN  /\ out'[p] = ZeroCut(SubSeq(payload, 1, n))
                   /\ ret'[p] = Len(out'[p])
                   /\ heap'[tmp[p]] = FreeCell
                   /\ heap'[d.message] = FreeCell
                   /\ QueueSeq' = QueueSeq]_vars
\* a read of 1 byte has returned 1 byte of a 2-byte message
C7_Witness ==
    \E p \in Procs :
        /\ Returned(p, "read", 1)
        /\ arg[p].length = 1
        /\ out[p] = <<1>>
        /\ removed # <<>>
        /\ Len(removed[Len(removed)]) = 2

\* C8: a device_ioctl never waits on a wait queue; one that returns -EINVAL
\* changes neither the limit nor the queue; one that returns SUCCESS changes
\* the limit and nothing of the queue.
C8_IoctlFrame ==
    /\ [][\A p \in Procs :
            (pc[p] \in {"io_entry", "io_cs"} /\ Acts(p) /\ pc'[p] = "idle") =>
               /\ ret'[p] \in {SUCCESS, -EINVAL}
               /\ ret'[p] = -EINVAL => UNCHANGED <<MAX_MESSAGES_SIZE, qvars>>
               /\ ret'[p] = SUCCESS => UNCHANGED qvars
               /\ UNCHANGED wvars]_vars
    /\ [](\A p \in Procs :
            InIoctl(p) => /\ pc[p] \in {"io_entry", "io_lock", "io_cs"}
                          /\ p \notin read_wq \cup write_wq)
\* a resize was refused while a message was queued
C8_Witness ==
    \E p \in Procs :
        /\ Returned(p, "ioctl", -EINVAL)
        /\ arg[p].num = CHANGE_MAX_MESSAGES_SIZE
        /\ messages_size > 0

\* the cells a task holds that are not linked in the queue
Held(p) ==
    IF tmp[p] = NULL THEN {}
    ELSE IF heap[tmp[p]].kind = "node"
         THEN {tmp[p], heap[tmp[p]].data, heap[heap[tmp[p]].data].message}
         ELSE {tmp[p], heap[tmp[p]].message}
Queued ==
    UNION {{QueueNodes[i], heap[QueueNodes[i]].data,
            heap[heap[QueueNodes[i]].data].message} :
               i \in 1 .. Len(QueueNodes)}
\* C9: a device_write that fails after the length check returns an error
\* from a step that leaves the heap and the queue as they were; no earlier
\* step of that call changed them (the steps of a write that change them are
\* the successful allocation and the link, after which the call succeeds);
\* and every allocated cell is linked in the queue or held by a call in
\* progress, so a failed call leaves nothing allocated.
C9_FailedWriteNoPartialState ==
    /\ [][\A p \in Procs :
            (arg[p].op = "write" /\ pc[p] # "idle" /\ Acts(p)) =>
               /\ (pc'[p] = "idle" /\ ret'[p] < 0) => UNCHANGED qvars
               /\ pc'[p] \notin {"enq_lock2", "wr_wake"} => UNCHANGED qvars
               /\ (pc[p] \in {"enq_lock2", "enq_cs2", "wr_wake"} /\ pc'[p] = "idle")
                     => ret'[p] = arg[p].length]_vars
    /\ [](Allocated(heap) = Queued \cup UNION {Held(p) : p \in Procs})
\* a write with a readable buffer has failed (an allocation failed) while a
\* message was queued
C9_Witness ==
    \E p \in Procs :
        /\ Returned(p, "write", -EFAULT)
        /\ arg[p].length = Len(arg[p].buf)
        /\ head # NULL

\* C10: a call suspended in its wait whose task has a signal pending does
\* not stay suspended.
C10_Abortable ==
    \A p \in Procs : (Asleep(p) /\ sig[p]) ~> ~Asleep(p)

\* C11: the step of release_queue frees every node linked from head, its
\* message record and its payload, frees nothing twice, leaves every other
\* cell as it was and releases the queue itself.
C11_Teardown ==
    [][(queue_lock = Rmmod /\ queue_lock' = NULL) =>
          /\ \A a \in Queued : heap'[a] = FreeCell
          /\ \A a \in Addrs \ Queued : heap'[a] = heap[a]
          /\ \A a \in Addrs : heap'[a].kind # "twice"
          /\ ~queuep']_vars

\* the queue was released while two messages were pending
C11_Witness ==
    /\ ~queuep
    /\ Len(linked) >= Len(removed) + 2
    /\ Allocated(heap) = {}

\* C12: a device_read that has passed its wait holds a message: dequeue
\* does not hand NULL to device_read.
C12_ReceiveObtainsMessage ==
    \A p \in Procs : pc[p] \in {"rd_wake", "rd_copy"} => tmp[p] # NULL

\* C13: when a device_write links its node, the bytes queued at that moment
\* plus the length of the message fit in the limit of that moment.
C13_AtomicAdmission ==
    [][\A p \in Procs :
          (pc[p] = "enq_cs2" /\ Acts(p)) =>
              messages_size + arg[p].length <= MAX_MESSAGES_SIZE]_vars

\* the sum of message_size over a sequence of nodes
RECURSIVE SumSizes(_, _)
SumSizes(h, nodes) ==
    IF nodes = <<>> THEN 0
    ELSE SizeOf(h, Head(nodes)) + SumSizes(h, Tail(nodes))

\* C14: with the lock free, messages_size is the sum of message_size over
\* the nodes linked from head.
C14_TotalBytes ==
    queue_lock = NULL => messages_size = SumSizes(heap, QueueNodes)

\* a dequeue has run and left a non-empty message linked
C14_Witness ==
    /\ queue_lock = NULL
    /\ removed # <<>>
    /\ head # NULL
    /\ messages_size > 0

\* C15: with the lock free, head is NULL iff rear is NULL iff no node is
\* linked; when rear is not NULL, rear->next is NULL and rear is the last
\* node reached from head.
C15_HeadRear ==
    queue_lock = NULL =>
        /\ (head = NULL) <=> (rear = NULL)
        /\ (head = NULL) <=> (Len(QueueNodes) = 0)
        /\ rear # NULL =>
               /\ heap[rear].kind = "node"
               /\ heap[rear].next = NULL
               /\ rear = QueueNodes[Len(QueueNodes)]

\* the only node of the queue has been dequeued
C15_Witness ==
    /\ queue_lock = NULL
    /\ Len(linked) > 0
    /\ Len(removed) = Len(linked)
    /\ head = NULL
    /\ rear = NULL

\* C16: a device_write asleep on write_wq does not stay asleep while there
\* is room for its message, whichever call made the room (a device_read or
\* a device_ioctl that raised the limit).
C16_RaiseAdmits ==
    \A p \in Procs :
        (pc[p] = "wr_sched" /\ p \in write_wq /\ HasRoom(p))
            ~> (pc[p] # "wr_sched" \/ ~HasRoom(p))

\* the places where a task reads or writes head, rear, messages_size or
\* MAX_MESSAGES_SIZE: the steps taken from the places mutex_lock leads to
CriticalSites == {AfterLock(l) : l \in LockSites}
Fields == <<head, rear, messages_size, MAX_MESSAGES_SIZE>>

\* C17: a task at a place where it reads or writes head, rear,
\* messages_size or MAX_MESSAGES_SIZE holds queue_lock, so at most one task
\* is at such a place; these fields change only in a step of the task that
\* holds the lock, and the queue is released only by the holder of the lock.
C17_LockDiscipline ==
    /\ [](\A p \in Procs : pc[p] \in CriticalSites => queue_lock = p)
    /\ [](\A p, q \in Procs :
            (pc[p] \in CriticalSites /\ pc[q] \in CriticalSites) => p = q)
    /\ [][Fields' # Fields =>
            \E p \in Procs :
                queue_lock = p /\ pc[p] \in CriticalSites /\ Acts(p)]_vars
    /\ [][queuep' # queuep => queue_lock = Rmmod]_vars

\* a task is inside a critical section while the other one is at mutex_lock
C17_Witness ==
    \E p, q \in Procs :
        /\ p # q
        /\ pc[p] \in CriticalSites
        /\ queue_lock = p
        /\ pc[q] \in LockSites

\* C18: the holder of queue_lock is inside a critical section (not
\* returned, not dead, not allocating, not on its way to schedule()), a task
\* suspended on read_wq or write_wq does not hold it, and the next step of
\* the holder releases the lock.
C18_LockReleased ==
    /\ [](\A p \in Procs : queue_lock = p => pc[p] \in CriticalSites)
    /\ [](\A p \in Procs : Asleep(p) => queue_lock # p)
    /\ [][\A p \in Procs :
            (queue_lock = p /\ Acts(p)) => queue_lock' = NULL]_vars
    /\ [][(queue_lock = Rmmod /\ queuep' # queuep) => queue_lock' = NULL]_vars

\* a device_read died after dequeue returned NULL, and release_queue could
\* still take the lock
C18_Witness ==
    /\ \E p \in Procs : pc[p] = "oops"
    /\ queue_lock = Rmmod

\* C19: the dequeue of a device_read frees the node it unlinks and hands
\* over its record and payload still allocated; the last step of the read,
\* whether it returns a count or -EFAULT, frees that record and that
\* payload, touches no other cell and leaves the queue and messages_size as
\* the dequeue left them (the message is not put back); no cell is ever
\* freed twice.
C19_ConsumedOnce ==
    /\ [](\A a \in Addrs : heap[a].kind # "twice")
    /\ [][\A p \in Procs :
            (pc[p] = "deq_cs" /\ Acts(p) /\ head # NULL) =>
                /\ heap'[head] = FreeCell
                /\ tmp'[p] = heap[head].data
                /\ heap'[tmp'[p]].kind = "data"
                /\ heap'[heap'[tmp'[p]].message].kind = "msg"
                /\ messages_size' = messages_size - SizeOf(heap, head)]_vars
    /\ [][\A p \in Procs :
            (pc[p] = "rd_copy" /\ Acts(p) /\ tmp[p] # NULL) =>
                /\ pc'[p] = "idle"
                /\ ret'[p] >= 0 \/ ret'[p] = -EFAULT
                /\ heap'[tmp[p]] = FreeCell
                /\ heap'[heap[tmp[p]].message] = FreeCell
                /\ \A a \in Addrs \ {tmp[p], heap[tmp[p]].message} :
                       heap'[a] = heap[a]
                /\ UNCHANGED <<head, rear, messages_size, hvars>>]_vars

\* a device_read has returned -EFAULT, the following message is still
\* linked, and nothing but the queue remains allocated
C19_Witness ==
    \E p \in Procs :
        /\ Returned(p, "read", -EFAULT)
        /\ Len(removed) = 1
        /\ head # NULL
        /\ messages_size = SizeOf(heap, head)
        /\ Allocated(heap) = Queued

=============================================================================
